---- MODULE Spec2Model ----
(***************************************************************************)
(* Publ image renditions (publ/image.py): the geometry resolver            *)
(* (get_rendition_size and its three per-mode methods), the output path    *)
(* builder and the file-existence cache of Image.get_rendition.            *)
(*                                                                         *)
(* Numbers.  Python's true division makes the intermediate widths and      *)
(* heights non-integers; they are modelled as exact rationals <<n, d>>     *)
(* with d > 0, kept in lowest terms.  Keyword arguments are functions      *)
(* whose DOMAIN is the set of keys that were passed, so that "key absent"  *)
(* and "key present but falsy" stay different, as in a Python dict.        *)
(* Strings are sequences of one-character strings, so that str(), join and *)
(* slicing are computed character by character.  None is the empty tuple.  *)
(***************************************************************************)
EXTENDS Integers, Sequences, FiniteSets, TLC

\* ------------------------------------------------------------ bounds
\* Largest base width / height of a source record.
MaxDim == 3
\* Largest number of get_rendition calls one worker starts.
MaxCalls == 2

\* ------------------------------------------------------- exact numbers
Abs(n) == IF n < 0 THEN -n ELSE n

RECURSIVE Gcd(_, _)
Gcd(a, b) == IF b = 0 THEN a ELSE Gcd(b, a % b)

\* The rational n/d (d # 0) in lowest terms with a positive denominator.
Norm(n, d) ==
    LET g == Gcd(Abs(n), Abs(d))
        s == IF d < 0 THEN -1 ELSE 1
    IN  <<(s * n) \div g, (s * d) \div g>>

\* An int as a number.
R(i) == <<i, 1>>

\* a * b
RMul(a, b) == Norm(a[1] * b[1], a[2] * b[2])

\* a / b for b # 0 (the callers raise ZeroDivisionError themselves when b = 0).
RDiv(a, b) == Norm(a[1] * b[2], a[2] * b[1])

\* a < b
RLt(a, b) == a[1] * b[2] < b[1] * a[2]

\* min(a, b) of two ints
Min(a, b) == IF b < a THEN b ELSE a

\* int(x): truncation toward zero.
Trunc(n, d) == IF n >= 0 THEN n \div d ELSE -((-n) \div d)

\* round(num) of image.py: int(num + 0.5).
round(x) == Trunc(2 * x[1] + x[2], 2 * x[2])

\* ------------------------------------------------------------ kwargs
\* spec.get(k) is truthy: the key was passed and its number is not zero.
Truthy(spec, k) == k \in DOMAIN spec /\ spec[k][1] # 0

\* spec.get(k, default)
GetDefault(spec, k, default) == IF k \in DOMAIN spec THEN spec[k] ELSE default

\* None, and the empty keyword dictionary.
None == <<>>
NoArgs == <<>>

\* --------------------------------------------------- the sizing pipeline
\* The running (width, height) of a *_size method; err is set once a
\* division by zero has raised ZeroDivisionError.
Dims(w, h) == [w |-> w, h |-> h, err |-> FALSE]
Raised(s) == [s EXCEPT !.err = TRUE]

\* if scale: width = width / scale; height = height / scale
ApplyScale(s, spec) ==
    IF s.err \/ ~Truthy(spec, "scale") THEN s
    ELSE Dims(RDiv(s.w, spec["scale"]), RDiv(s.h, spec["scale"]))

\* fit: if t and width < t: height = height * t / width; width = t
FitRaiseWidth(s, spec, k) ==
    IF s.err \/ ~Truthy(spec, k) \/ ~RLt(s.w, spec[k]) THEN s
    ELSE IF s.w[1] = 0 THEN Raised(s)
    ELSE Dims(spec[k], RDiv(RMul(s.h, spec[k]), s.w))

\* fit: if t and height < t: width = width * t / height; height = t
FitRaiseHeight(s, spec, k) ==
    IF s.err \/ ~Truthy(spec, k) \/ ~RLt(s.h, spec[k]) THEN s
    ELSE IF s.h[1] = 0 THEN Raised(s)
    ELSE Dims(RDiv(RMul(s.w, spec[k]), s.h), spec[k])

\* fit: if t and width > t: height = height * t / width; width = t
FitClampWidth(s, spec, k) ==
    IF s.err \/ ~Truthy(spec, k) \/ ~RLt(spec[k], s.w) THEN s
    ELSE IF s.w[1] = 0 THEN Raised(s)
    ELSE Dims(spec[k], RDiv(RMul(s.h, spec[k]), s.w))

\* fit: if t and height > t: width = width * t / height; height = t
FitClampHeight(s, spec, k) ==
    IF s.err \/ ~Truthy(spec, k) \/ ~RLt(spec[k], s.h) THEN s
    ELSE IF s.h[1] = 0 THEN Raised(s)
    ELSE Dims(RDiv(RMul(s.w, spec[k]), s.h), spec[k])

\* fill, stretch: if t and width < t: width = t
RaiseWidth(s, spec, k) ==
    IF s.err \/ ~Truthy(spec, k) \/ ~RLt(s.w, spec[k]) THEN s
    ELSE Dims(spec[k], s.h)

\* fill, stretch: if t and height < t: height = t
RaiseHeight(s, spec, k) ==
    IF s.err \/ ~Truthy(spec, k) \/ ~RLt(s.h, spec[k]) THEN s
    ELSE Dims(s.w, spec[k])

\* fill, stretch: if t and width > t: width = t
ClampWidth(s, spec, k) ==
    IF s.err \/ ~Truthy(spec, k) \/ ~RLt(spec[k], s.w) THEN s
    ELSE Dims(spec[k], s.h)

\* fill, stretch: if t and height > t: height = t
ClampHeight(s, spec, k) ==
    IF s.err \/ ~Truthy(spec, k) \/ ~RLt(spec[k], s.h) THEN s
    ELSE Dims(s.w, spec[k])

\* width = width * output_scale; height = height * output_scale
ApplyOutputScale(s, output_scale) ==
    IF s.err THEN s
    ELSE Dims(RMul(s.w, output_scale), RMul(s.h, output_scale))

\* What a *_size method hands back: (size, box), or the exception it raised.
Returned(size, box) == [raised |-> "", size |-> size, box |-> box]
Raise(exc) == [raised |-> exc, size |-> None, box |-> None]

\* ------------------------------------------------ get_rendition_fit_size
\* The last two lines of the fit method: min(round(width), iw), same for
\* the height.
FitFinalUnclamped(s, iw, ih) == <<round(s.w), round(s.h)>>
FitFinal(s, iw, ih) == <<Min(round(s.w), iw), Min(round(s.h), ih)>>

get_rendition_fit_size(rec, spec, output_scale) ==
    LET iw == rec.width
        ih == rec.height
        s1 == ApplyScale(Dims(R(iw), R(ih)), spec)
        s2 == FitRaiseWidth(s1, spec, "scale_min_width")
        s3 == FitRaiseHeight(s2, spec, "scale_min_height")
        s4 == FitClampWidth(s3, spec, "width")
        s5 == FitClampHeight(s4, spec, "height")
        s6 == FitClampWidth(s5, spec, "max_width")
        \* line 172 reads spec.get('height') again, not 'max_height'
        s7 == FitClampHeight(s6, spec, "height")
        s8 == ApplyOutputScale(s7, output_scale)
    IN  IF s8.err THEN Raise("ZeroDivisionError")
        ELSE Returned(FitFinal(s8, iw, ih), None)

\* ----------------------------------------------- get_rendition_fill_size
\* if width > iw: height = height * iw / width; width = iw
FillLimitWidth(s, iw) ==
    IF s.err \/ ~RLt(R(iw), s.w) THEN s
    ELSE IF s.w[1] = 0 THEN Raised(s)
    ELSE Dims(R(iw), RDiv(RMul(s.h, R(iw)), s.w))

\* if height > ih: width = width * ih / height; height = ih
FillLimitHeight(s, ih) ==
    IF s.err \/ ~RLt(R(ih), s.h) THEN s
    ELSE IF s.h[1] = 0 THEN Raised(s)
    ELSE Dims(RDiv(RMul(s.w, R(ih)), s.h), R(ih))

\* The box of the fill method, lines 240-247; the two divisions raise when
\* the resolved height or width is zero.
FillBox(s, iw, ih, spec) ==
    LET half  == <<1, 2>>
        box_w == Min(iw, round(RDiv(RMul(s.w, R(ih)), s.h)))
        box_h == Min(ih, round(RDiv(RMul(s.h, R(iw)), s.w)))
        box_x == round(RMul(R(iw - box_w), GetDefault(spec, "fill_crop_x", half)))
        box_y == round(RMul(R(ih - box_h), GetDefault(spec, "fill_crop_y", half)))
    IN  <<box_x, box_y, box_x + box_w, box_y + box_h>>

get_rendition_fill_size(rec, spec, output_scale) ==
    LET iw == rec.width
        ih == rec.height
        s1 == ApplyScale(Dims(R(iw), R(ih)), spec)
        s2 == RaiseWidth(s1, spec, "scale_min_width")
        s3 == RaiseHeight(s2, spec, "scale_min_height")
        s4 == ClampWidth(s3, spec, "width")
        s5 == ClampHeight(s4, spec, "height")
        s6 == ClampWidth(s5, spec, "max_width")
        \* line 222 reads spec.get('height') again, not 'max_height'
        s7 == ClampHeight(s6, spec, "height")
        s8 == ApplyOutputScale(s7, output_scale)
        s9 == FillLimitHeight(FillLimitWidth(s8, iw), ih)
    IN  IF s9.err \/ s9.w[1] = 0 \/ s9.h[1] = 0 THEN Raise("ZeroDivisionError")
        ELSE Returned(<<round(s9.w), round(s9.h)>>, FillBox(s9, iw, ih, spec))

\* -------------------------------------------- get_rendition_stretch_size
get_rendition_stretch_size(rec, spec, output_scale) ==
    LET s1 == ApplyScale(Dims(R(rec.width), R(rec.height)), spec)
        s2 == RaiseWidth(s1, spec, "scale_min_width")
        s3 == RaiseHeight(s2, spec, "scale_min_height")
        s4 == ClampWidth(s3, spec, "width")
        s5 == ClampHeight(s4, spec, "height")
        s6 == ClampWidth(s5, spec, "max_width")
        \* line 282 reads spec.get('height') again, not 'max_height'
        s7 == ClampHeight(s6, spec, "height")
        s8 == ApplyOutputScale(s7, output_scale)
    IN  Returned(<<round(s8.w), round(s8.h)>>, None)

\* ---------------------------------------------------- get_rendition_size
\* mode = spec.get('resize', 'fit')
ResizeMode(spec) == IF "resize" \in DOMAIN spec THEN spec["resize"] ELSE "fit"

get_rendition_size_lenient(rec, spec, output_scale) ==
    LET mode == ResizeMode(spec)
    IN  IF mode = "fill" THEN get_rendition_fill_size(rec, spec, output_scale)
        ELSE IF mode = "stretch" THEN get_rendition_stretch_size(rec, spec, output_scale)
        ELSE get_rendition_fit_size(rec, spec, output_scale)

get_rendition_size(rec, spec, output_scale) ==
    LET mode == ResizeMode(spec)
    IN  IF mode = "fit" THEN get_rendition_fit_size(rec, spec, output_scale)
        ELSE IF mode = "fill" THEN get_rendition_fill_size(rec, spec, output_scale)
        ELSE IF mode = "stretch" THEN get_rendition_stretch_size(rec, spec, output_scale)
        ELSE Raise("ValueError")

\* ------------------------------------------------------------ strings
\* "abc" is <<"a", "b", "c">>.
DigitChars == <<"0", "1", "2", "3", "4", "5", "6", "7", "8", "9">>

RECURSIVE NatStr(_)
NatStr(n) ==
    IF n < 10 THEN <<DigitChars[n + 1]>>
    ELSE NatStr(n \div 10) \o <<DigitChars[(n % 10) + 1]>>

\* str(v) of an int
str(v) == IF v < 0 THEN <<"-">> \o NatStr(-v) ELSE NatStr(v)

\* sep.join(parts)
RECURSIVE Join(_, _)
Join(sep, parts) ==
    IF Len(parts) = 0 THEN <<>>
    ELSE IF Len(parts) = 1 THEN parts[1]
    ELSE parts[1] \o sep \o Join(sep, Tail(parts))

\* [str(v) for v in values]
StrEach(values) == [i \in 1..Len(values) |-> str(values[i])]

\* The last index of character c in s, 0 when there is none.
RECURSIVE LastIndex(_, _)
LastIndex(s, c) ==
    IF Len(s) = 0 THEN 0
    ELSE IF s[Len(s)] = c THEN Len(s)
    ELSE LastIndex(SubSeq(s, 1, Len(s) - 1), c)

\* os.path.basename(p)
PathBasename(p) == SubSeq(p, LastIndex(p, "/") + 1, Len(p))

\* os.path.splitext(name): <<root, ext>>, split at the last dot unless the
\* name has no dot or only leading ones.
SplitExt(name) ==
    LET i == LastIndex(name, ".")
    IN  IF i = 0 \/ \A j \in 1..i : name[j] = "."
        THEN <<name, <<>>>>
        ELSE <<SubSeq(name, 1, i - 1), SubSeq(name, i, Len(name))>>

\* s[-n:]
LastChars(s, n) == IF Len(s) <= n THEN s ELSE SubSeq(s, Len(s) - n + 1, Len(s))

\* s[a:b] for 0 <= a <= b
Slice(s, a, b) == SubSeq(s, a + 1, Min(b, Len(s)))

\* utils.make_slug: lower case, every run of other characters becomes one "-".
UpperChars == <<"A", "B", "C", "D", "E", "F", "S", "T">>
LowerChars == <<"a", "b", "c", "d", "e", "f", "s", "t">>
SlugChars == {LowerChars[i] : i \in 1..Len(LowerChars)} \cup {DigitChars[i] : i \in 1..10}
ToLower(c) ==
    IF \E i \in 1..Len(UpperChars) : UpperChars[i] = c
    THEN LowerChars[CHOOSE i \in 1..Len(UpperChars) : UpperChars[i] = c]
    ELSE c

RECURSIVE make_slug(_)
make_slug(s) ==
    IF Len(s) = 0 THEN <<>>
    ELSE LET rest == make_slug(Tail(s))
             c    == ToLower(s[1])
         IN  IF c \in SlugChars THEN <<c>> \o rest
             ELSE IF Len(rest) > 0 /\ rest[1] = "-" THEN rest
             ELSE <<"-">> \o rest

\* ------------------------------------------ get_rendition: the output path
\* ext and flatten, lines 59-65: <<ext, flatten>>; flatten stays None (falsy,
\* FALSE here) when no format was asked for.
HasFormat(kwargs) == "format" \in DOMAIN kwargs /\ Len(kwargs["format"]) > 0

OutExt(rec, kwargs) ==
    IF HasFormat(kwargs) THEN <<".">> \o kwargs["format"]
    ELSE SplitExt(PathBasename(rec.file_path))[2]

Flatten(kwargs) ==
    /\ HasFormat(kwargs)
    /\ (<<".">> \o kwargs["format"]) \notin {<<".", "p", "n", "g">>, <<".", "g", "i", "f">>}

\* config.image_output_subdir
image_output_subdir == <<"_", "i", "m", "g">>

\* The hash characters kept in the file name and in the two directory levels.
HashSuffixLen == 10
ShardOneEnd == 2
ShardTwoEnd == 6

\* out_spec's first two entries, line 68.
NameStemNoHash(rec) == <<make_slug(SplitExt(PathBasename(rec.file_path))[1])>>
NameStem(rec) ==
    <<make_slug(SplitExt(PathBasename(rec.file_path))[1]),
      LastChars(rec.checksum, HashSuffixLen)>>

\* line 73-74: the size token, only for a size below the base in a dimension
SizeToken(rec, size) ==
    IF size[1] < rec.width \/ size[2] < rec.height
    THEN <<Join(<<"x">>, StrEach(size))>>
    ELSE <<>>

\* line 75-76: the box token
BoxToken(box) == IF box # None THEN <<Join(<<"-">>, StrEach(box))>> ELSE <<>>

\* line 78-83: the background token; a background is <<"tuple", ints>> or
\* <<"str", chars>>
BackgroundToken(kwargs) ==
    IF Flatten(kwargs) /\ "background" \in DOMAIN kwargs
    THEN LET bg_color == kwargs["background"]
         IN  IF bg_color[1] = "tuple"
             THEN <<<<"b">> \o Join(<<"-">>, StrEach(bg_color[2]))>>
             ELSE <<<<"b">> \o bg_color[2]>>
    ELSE <<>>

\* line 85: the extension is a JPEG one and a quality was passed
TakesQuality(rec, kwargs) ==
    /\ OutExt(rec, kwargs) \in {<<".", "j", "p", "g">>, <<".", "j", "p", "e", "g">>}
    /\ "quality" \in DOMAIN kwargs

\* line 86-88: the quality token, only for a truthy quality
QualityToken(rec, kwargs) ==
    IF TakesQuality(rec, kwargs) /\ kwargs["quality"] # 0
    THEN <<<<"q">> \o str(kwargs["quality"])>>
    ELSE <<>>

\* line 89: out_args, the keyword arguments of save()
OutArgs(rec, kwargs) ==
    IF TakesQuality(rec, kwargs) THEN [quality |-> kwargs["quality"]] ELSE NoArgs

\* lines 92-97: out_rel_path
OutRelPath(rec, kwargs, size, box) ==
    LET out_spec == NameStem(rec) \o SizeToken(rec, size) \o BoxToken(box)
                    \o BackgroundToken(kwargs) \o QualityToken(rec, kwargs)
        out_basename == Join(<<"_">>, out_spec) \o OutExt(rec, kwargs)
    IN  Join(<<"/">>, <<image_output_subdir,
                         Slice(rec.checksum, 0, ShardOneEnd),
                         Slice(rec.checksum, ShardOneEnd, ShardTwoEnd),
                         out_basename>>)

\* os.path.dirname(out_fullpath), relative to the static folder
DirName(path) == SubSeq(path, 1, LastIndex(path, "/") - 1)

\* os.path.isfile(out_fullpath), os.path.isdir(out_dir)
isfile_never(fs, path) == FALSE
isfile(fs, path) == path \in fs
isdir(ds, dir) == dir \in ds

\* ------------------------------------------------------------- inputs
Workers == {1, 2}

\* An md5 hexdigest, and the same digest with one character changed.
Digest ==
    <<"d", "4", "1", "d", "8", "c", "d", "9", "8", "f", "0", "0", "b", "2", "0", "4",
      "e", "9", "8", "0", "0", "9", "9", "8", "e", "c", "f", "8", "4", "2", "7", "e">>
DigestWith(i) == [Digest EXCEPT ![i] = "a"]
\* Digests differing in the first directory level, the second, the part no
\* path component keeps, and the suffix kept in the file name.
Checksums == {Digest, DigestWith(2), DigestWith(5), DigestWith(15), DigestWith(30)}

SourcePath == <<"a", "/", "S", "e", "t", " ", "1", ".", "p", "n", "g">>

ImageRecord(cs, w, h) ==
    [file_path |-> SourcePath, checksum |-> cs, width |-> w, height |-> h]

\* Either no key, or key k with a value of S.
Opt(k, S) == {NoArgs} \cup {k :> v : v \in S}

\* The numeric constraints.
SizingArgs ==
    { a @@ b @@ c @@ d @@ e @@ f @@ g :
        a \in Opt("scale", {R(2), R(4)}),
        b \in Opt("scale_min_width", {R(2)}),
        c \in Opt("scale_min_height", {R(1), R(3)}),
        d \in Opt("width", {R(1), R(2)}),
        e \in Opt("height", {R(2)}),
        f \in Opt("max_width", {R(2)}),
        g \in Opt("max_height", {R(1)}) }

CropArgs ==
    { a @@ b : a \in Opt("fill_crop_x", {R(0), <<1, 3>>, R(1)}),
               b \in Opt("fill_crop_y", {R(1)}) }

\* Keyword arguments of the sizing runs: every constraint set under every
\* mode, a bad mode included; the crop fractions only matter to fill.
SizeKwargs ==
    { m @@ a : m \in Opt("resize", {"stretch", "crop"}), a \in SizingArgs }
    \cup { ("resize" :> "fill") @@ a @@ c : a \in SizingArgs, c \in CropArgs }

OutputScales == {<<1, 2>>, R(1), R(2)}

\* Keyword arguments of the path runs: what is resized, and what is saved.
SavedAs ==
    LET jpg == "format" :> <<"j", "p", "g">>
        png == "format" :> <<"p", "n", "g">>
        red == "background" :> <<"str", <<"r", "e", "d">>>>
        rgb == "background" :> <<"tuple", <<255, 0, 0>>>>
    IN  {NoArgs, png, png @@ red, jpg, jpg @@ red, jpg @@ rgb,
         jpg @@ ("quality" :> 80), jpg @@ ("quality" :> 8)}

KeyKwargs ==
    { m @@ a @@ f : m \in Opt("resize", {"fill", "stretch"}),
                    a \in Opt("width", {R(1)}),
                    f \in SavedAs }

KeyScales == {R(1), R(2), R(3)}

\* Keyword arguments of the requests the workers make.
CallKwargs ==
    {NoArgs, "resize" :> "fit", "resize" :> "crop",
     ("resize" :> "crop") @@ ("width" :> R(1)),
     "width" :> R(1), ("resize" :> "fill") @@ ("width" :> R(1))}

\* -------------------------------------------------------------- state
VARIABLES
    record,        \* per worker: self._record of the call in progress
    kwargs,        \* per worker: the call's keyword arguments
    output_scale,  \* per worker: the call's output_scale
    pc,            \* per worker: the line of get_rendition it is at
    size,          \* per worker: size, once get_rendition_size returned
    box,           \* per worker: box
    out_rel_path,  \* per worker: out_rel_path
    raised,        \* per worker: the exception that ended the call, or ""
    calls,         \* per worker: the calls started so far
    dirs,          \* the directories under the static folder
    files,         \* the files under the static folder
    saved,         \* history: for each path, the save() calls that wrote it
    completed      \* history: the requests that have returned

vars == <<record, kwargs, output_scale, pc, size, box, out_rel_path, raised,
          calls, dirs, files, saved, completed>>

locals == <<size, box, out_rel_path>>
disk == <<dirs, files, saved>>

Request(w) == <<record[w], kwargs[w], output_scale[w]>>

\* No call in progress.
Resting(w) == pc[w] \in {"idle", "returned", "raised"}

\* Nothing has been called and nothing is on disk; the workers named in
\* `started` stand at the first line of a call with the given inputs.
Start(started, recs, kws, scales) ==
    /\ record = recs
    /\ kwargs = kws
    /\ output_scale = scales
    /\ pc = [w \in Workers |-> IF w \in started THEN "line58" ELSE "idle"]
    /\ size = [w \in Workers |-> None]
    /\ box = [w \in Workers |-> None]
    /\ out_rel_path = [w \in Workers |-> None]
    /\ raised = [w \in Workers |-> ""]
    /\ calls = [w \in Workers |-> IF w \in started THEN 1 ELSE 0]
    /\ dirs = {}
    /\ files = {}
    /\ saved = NoArgs
    /\ completed = {}

\* ------------------------------------------------------------ actions
\* image.get_rendition(output_scale, kwargs) is called.
Call(w) ==
    /\ Resting(w)
    /\ calls[w] < MaxCalls
    /\ \E kw \in CallKwargs :
         /\ kwargs' = [kwargs EXCEPT ![w] = kw]
         /\ record' = [record EXCEPT ![w] = ImageRecord(Digest, 2, 2)]
         /\ output_scale' = [output_scale EXCEPT ![w] = R(1)]
    /\ pc' = [pc EXCEPT ![w] = "line58"]
    /\ size' = [size EXCEPT ![w] = None]
    /\ box' = [box EXCEPT ![w] = None]
    /\ out_rel_path' = [out_rel_path EXCEPT ![w] = None]
    /\ raised' = [raised EXCEPT ![w] = ""]
    /\ calls' = [calls EXCEPT ![w] = @ + 1]
    /\ UNCHANGED <<disk, completed>>

\* Lines 58-99: the size, the box and the output path; get_rendition_size
\* may raise.
Resolve(w) ==
    /\ pc[w] = "line58"
    /\ \E r \in {get_rendition_size(record[w], kwargs[w], output_scale[w])} :
           IF r.raised # ""
           THEN /\ pc' = [pc EXCEPT ![w] = "raised"]
                /\ raised' = [raised EXCEPT ![w] = r.raised]
                /\ UNCHANGED locals
           ELSE /\ pc' = [pc EXCEPT ![w] = "line101"]
                /\ size' = [size EXCEPT ![w] = r.size]
                /\ box' = [box EXCEPT ![w] = r.box]
                /\ out_rel_path' =
                     [out_rel_path EXCEPT ![w] = OutRelPath(record[w], kwargs[w], r.size, r.box)]
                /\ UNCHANGED raised
    /\ UNCHANGED <<record, kwargs, output_scale, calls, disk, completed>>

\* Line 101: if not os.path.isdir(out_dir)
IsDir(w) ==
    /\ pc[w] = "line101"
    /\ pc' = [pc EXCEPT ![w] =
                IF isdir(dirs, DirName(out_rel_path[w])) THEN "line104" ELSE "line102"]
    /\ UNCHANGED <<record, kwargs, output_scale, locals, raised, calls, disk, completed>>

\* Line 102: os.makedirs(out_dir), which raises when the directory exists.
MakeDirs(w) ==
    /\ pc[w] = "line102"
    /\ IF isdir(dirs, DirName(out_rel_path[w]))
       THEN /\ pc' = [pc EXCEPT ![w] = "raised"]
            /\ raised' = [raised EXCEPT ![w] = "FileExistsError"]
            /\ UNCHANGED dirs
       ELSE /\ pc' = [pc EXCEPT ![w] = "line104"]
            /\ dirs' = dirs \cup {DirName(out_rel_path[w])}
            /\ UNCHANGED raised
    /\ UNCHANGED <<record, kwargs, output_scale, locals, calls, files, saved, completed>>

\* Line 104: if not os.path.isfile(out_fullpath); a hit returns at line 115.
IsFile(w) ==
    /\ pc[w] = "line104"
    /\ IF isfile(files, out_rel_path[w])
       THEN /\ pc' = [pc EXCEPT ![w] = "returned"]
            /\ completed' = completed \cup {Request(w)}
       ELSE /\ pc' = [pc EXCEPT ![w] = "line106"]
            /\ UNCHANGED completed
    /\ UNCHANGED <<record, kwargs, output_scale, locals, raised, calls, disk>>

\* Lines 106-115: the codec opens, resizes and saves, then the call returns;
\* or PIL raises (the source is unreadable) and nothing is written.
Process(w) ==
    /\ pc[w] = "line106"
    /\ \/ /\ pc' = [pc EXCEPT ![w] = "returned"]
          /\ files' = files \cup {out_rel_path[w]}
          /\ saved' = (out_rel_path[w] :>
                         (IF out_rel_path[w] \in DOMAIN saved
                          THEN saved[out_rel_path[w]] + 1 ELSE 1)) @@ saved
          /\ completed' = completed \cup {Request(w)}
          /\ UNCHANGED raised
       \/ /\ pc' = [pc EXCEPT ![w] = "raised"]
          /\ raised' = [raised EXCEPT ![w] = "IOError"]
          /\ UNCHANGED <<files, saved, completed>>
    /\ UNCHANGED <<record, kwargs, output_scale, locals, calls, dirs>>

\* One step of a call in progress.
Step(w) == Resolve(w) \/ IsDir(w) \/ MakeDirs(w) \/ IsFile(w) \/ Process(w)

\* ----------------------------------------------------- specifications
\* Concurrent callers: any worker may call or step at any time.
Init ==
    Start({}, [w \in Workers |-> ImageRecord(Digest, 2, 2)],
              [w \in Workers |-> NoArgs], [w \in Workers |-> R(1)])

Next == \E w \in Workers : Call(w) \/ Step(w)

Spec == Init /\ [][Next]_vars

\* Non-overlapping calls: a call starts only when no other is in progress.
SeqNext ==
    \E w \in Workers :
        \/ Call(w) /\ \A v \in Workers : Resting(v)
        \/ Step(w)

SpecSeq == Init /\ [][SeqNext]_vars

\* The sizing of one call, over every base size, constraint set and scale.
SizeInit ==
    \E iw \in 1..MaxDim, ih \in 1..MaxDim, kw \in SizeKwargs, os \in OutputScales :
        Start({1}, [w \in Workers |-> ImageRecord(Digest, iw, ih)],
                   [w \in Workers |-> IF w = 1 THEN kw ELSE NoArgs],
                   [w \in Workers |-> os])

ResolveNext == \E w \in Workers : Resolve(w)

SpecSize == SizeInit /\ [][ResolveNext]_vars

\* The sizing of one call on a corrupt source record: a base width or height
\* that is zero or negative.
CorruptInit ==
    \E iw \in -1..1, ih \in -1..1, kw \in SizeKwargs :
        /\ iw <= 0 \/ ih <= 0
        /\ Start({1}, [w \in Workers |-> ImageRecord(Digest, iw, ih)],
                      [w \in Workers |-> IF w = 1 THEN kw ELSE NoArgs],
                      [w \in Workers |-> R(1)])

SpecCorrupt == CorruptInit /\ [][ResolveNext]_vars

\* Two requests on one source record, each with its own arguments.
KeyInit ==
    \E kw1 \in KeyKwargs, kw2 \in KeyKwargs, os1 \in KeyScales, os2 \in KeyScales :
        Start(Workers, [w \in Workers |-> ImageRecord(Digest, 2, 2)],
                       [w \in Workers |-> IF w = 1 THEN kw1 ELSE kw2],
                       [w \in Workers |-> IF w = 1 THEN os1 ELSE os2])

SpecKey == KeyInit /\ [][ResolveNext]_vars

\* One request on two records of the same file: its content before and
\* after a change.
HashKwargs ==
    {NoArgs, "width" :> R(1), ("resize" :> "fill") @@ ("width" :> R(1)),
     "format" :> <<"j", "p", "g">>}

HashInit ==
    \E cs1 \in Checksums, cs2 \in Checksums, kw \in HashKwargs,
       w1 \in 1..MaxDim, h1 \in 1..MaxDim, w2 \in 1..MaxDim, h2 \in 1..MaxDim :
        Start(Workers, [w \in Workers |-> IF w = 1 THEN ImageRecord(cs1, w1, h1)
                                          ELSE ImageRecord(cs2, w2, h2)],
                       [w \in Workers |-> kw],
                       [w \in Workers |-> R(1)])

SpecHash == HashInit /\ [][ResolveNext]_vars

\* ------------------------------------------------------------- claims
Modes == {"fit", "fill", "stretch"}

\* get_rendition_size has returned to worker w's call.
Sized(w) == pc[w] = "line101"

\* What lines 106-113 hand the codec: the size and box of resize(), the
\* background of flatten(), the arguments of save() and the extension that
\* selects the format.
CodecInput(w) ==
    <<size[w], box[w],
      IF Flatten(kwargs[w]) /\ "background" \in DOMAIN kwargs[w]
      THEN <<kwargs[w]["background"]>> ELSE None,
      OutArgs(record[w], kwargs[w]),
      OutExt(record[w], kwargs[w])>>

\* C1: in fill mode, on a positive base size, the returned crop box satisfies
\* 0 <= x0 < x1 <= base width and 0 <= y0 < y1 <= base height.
C1_FillBoxInsideBase ==
    \A w \in Workers :
        (Sized(w) /\ ResizeMode(kwargs[w]) = "fill") =>
            /\ box[w] # None
            /\ 0 <= box[w][1] /\ box[w][1] < box[w][3] /\ box[w][3] <= record[w].width
            /\ 0 <= box[w][2] /\ box[w][2] < box[w][4] /\ box[w][4] <= record[w].height

\* C2: in fit mode the resolved width and height never exceed the base width
\* and height, whatever the constraints and the output scale, and no crop box
\* is returned.
C2_FitWithinBase ==
    \A w \in Workers :
        (Sized(w) /\ ResizeMode(kwargs[w]) = "fit") =>
            /\ size[w][1] <= record[w].width
            /\ size[w][2] <= record[w].height
            /\ box[w] = None

\* C2's case: a fit request with output_scale 2 whose upsample was clamped
\* away, leaving the base size.
C2_Witness ==
    \E w \in Workers :
        /\ Sized(w) /\ ResizeMode(kwargs[w]) = "fit"
        /\ output_scale[w] = R(2)
        /\ record[w].width > 1
        /\ size[w] = <<record[w].width, record[w].height>>

\* C4: with output_scale 1, a max_width that is set bounds the resolved width
\* and a max_height that is set bounds the resolved height, in every mode.
C4_CapsRespected ==
    \A w \in Workers :
        (Sized(w) /\ output_scale[w] = R(1)) =>
            /\ Truthy(kwargs[w], "max_width") =>
                  RLt(R(size[w][1]), kwargs[w]["max_width"]) \/ R(size[w][1]) = kwargs[w]["max_width"]
            /\ Truthy(kwargs[w], "max_height") =>
                  RLt(R(size[w][2]), kwargs[w]["max_height"]) \/ R(size[w][2]) = kwargs[w]["max_height"]

\* C5: on a positive base size the resolved width and height are both >= 1,
\* in every mode and for every constraint set.
C5_SizePositive ==
    \A w \in Workers : Sized(w) => size[w][1] >= 1 /\ size[w][2] >= 1

\* C7: on a source record whose base width or height is zero or negative the
\* sizing always fails; it never returns a size.
C7_CorruptBaseAlwaysFails ==
    \A w \in Workers :
        (record[w].width <= 0 \/ record[w].height <= 0) => ~Sized(w)

\* C3: two requests on one source record that give the codec different
\* inputs (size, box, background, quality, format) get different output paths.
C3_DifferentOutputDifferentPath ==
    (Sized(1) /\ Sized(2) /\ record[1] = record[2] /\ CodecInput(1) # CodecInput(2))
        => out_rel_path[1] # out_rel_path[2]

\* C9 as stated: the same file and arguments under two different content
\* hashes get different output paths.
C9_DifferentHashDifferentPath ==
    (/\ Sized(1) /\ Sized(2)
     /\ record[1].file_path = record[2].file_path /\ kwargs[1] = kwargs[2]
     /\ record[1].checksum # record[2].checksum)
        => out_rel_path[1] # out_rel_path[2]

\* The characters of a content hash that reach the path: the first 6 (the two
\* directory levels) and the last 10 (the file name).
KeptHash(cs) == <<Slice(cs, 0, ShardTwoEnd), LastChars(cs, HashSuffixLen)>>

\* C9 as amended: the same file and arguments under two content hashes that
\* differ in their first 6 or their last 10 characters get different output
\* paths.
C9_DifferentKeptHashDifferentPath ==
    (/\ Sized(1) /\ Sized(2)
     /\ record[1].file_path = record[2].file_path /\ kwargs[1] = kwargs[2]
     /\ KeptHash(record[1].checksum) # KeptHash(record[2].checksum))
        => out_rel_path[1] # out_rel_path[2]

\* C9's case: two hashes with the same first 6 characters and different last
\* 10, on records of the same size, resolved to two paths.
C9_Witness ==
    /\ Sized(1) /\ Sized(2)
    /\ record[1].checksum # record[2].checksum
    /\ Slice(record[1].checksum, 0, ShardTwoEnd) = Slice(record[2].checksum, 0, ShardTwoEnd)
    /\ record[1].width = record[2].width /\ record[1].height = record[2].height
    /\ DirName(out_rel_path[1]) = DirName(out_rel_path[2])
    /\ out_rel_path[1] # out_rel_path[2]

\* C6: a request with a resize mode outside {fit, fill, stretch} ends in
\* ValueError at its first step, which creates no directory, writes no file,
\* does not run the codec and leaves the call without size, box or path.
C6_BadModeFailsFirst ==
    [][\A w \in Workers :
          (pc[w] = "line58" /\ pc'[w] # "line58" /\ ResizeMode(kwargs[w]) \notin Modes) =>
              /\ pc'[w] = "raised" /\ raised'[w] = "ValueError"
              /\ size'[w] = None /\ box'[w] = None /\ out_rel_path'[w] = None
              /\ dirs' = dirs /\ files' = files /\ saved' = saved
              /\ completed' = completed]_vars

\* C6's case: a call with a bad mode has ended in ValueError while another
\* call's rendition is on disk.
C6_Witness ==
    \E w \in Workers :
        /\ ResizeMode(kwargs[w]) \notin Modes
        /\ pc[w] = "raised" /\ raised[w] = "ValueError"
        /\ files # {}

\* C8: with non-overlapping calls the codec runs only when no file is at the
\* output path and never for a request that has already returned once; a call
\* that returned has its file on disk; so no path is ever saved twice.
C8_SequentialCache ==
    /\ \A w \in Workers :
          /\ pc[w] = "line106" =>
                /\ ~isfile(files, out_rel_path[w])
                /\ Request(w) \notin completed
          /\ pc[w] = "returned" => isfile(files, out_rel_path[w])
    /\ \A p \in DOMAIN saved : saved[p] = 1

\* C8's case: two identical requests have both returned and the codec saved
\* their path once.
C8_Witness ==
    \E w \in Workers, v \in Workers :
        /\ w # v
        /\ pc[w] = "returned" /\ pc[v] = "returned"
        /\ Request(w) = Request(v)
        /\ out_rel_path[w] \in DOMAIN saved
        /\ saved[out_rel_path[w]] = 1

\* C10: under every interleaving of concurrent calls no output path is
\* generated more than once.
C10_GeneratedAtMostOnce ==
    \A p \in DOMAIN saved : saved[p] <= 1

====
